---- MODULE Spec2Model ----
(***************************************************************************)
(* Minimax tic-tac-toe (src/src/app.ts): the Board class, the Player       *)
(* class with its score -> moves tally (nodesMap) and the tie-break        *)
(* helper getBestMoveAndExecuteCallback.                                   *)
(*                                                                         *)
(* A Board is its _state array: a function 0..8 -> CellValue.  A JavaScript *)
(* value is a record tagged by its typeof; a string is a sequence of       *)
(* one-character strings, so that the template literal, split(',') and the *)
(* unary + of the tally are computed, not assumed.                         *)
(***************************************************************************)
EXTENDS Integers, Sequences, FiniteSets, TLC

VARIABLES
    board,      \* Board._state of the board the caller holds
    turn,       \* the side the caller asks a move for (TRUE: maximizing, X)
    maxDepth,   \* Player.maxDepth
    nodesMap,   \* Player.nodesMap
    ret,        \* value returned (or error thrown) by the last operation
    callbacks,  \* arguments the result callback received during the last top-level call
    op,         \* the last operation (with the arguments of an insert)
    probe       \* observations of the last top-level search (root best, dead ends, leftover tally)

vars == <<board, turn, maxDepth, nodesMap, ret, callbacks, op, probe>>

----------------------------------------------------------------------------
(* Bounds of the model *)

\* Root boards of the single-call specification have at most this many Empty
\* cells (the all-Empty board is a root as well).
MaxEmpty == 3

\* Depth caps given to the Player constructor: -1 (the default) and 0..MaxDepthCap.
MaxDepthCap == 2

----------------------------------------------------------------------------
(* CellValue, WINNER_POSITIONS *)

Empty == ""
X == "X"
O == "O"
CellValue == {Empty, X, O}

WINNER_POSITIONS ==
    << <<0, 1, 2>>, <<3, 4, 5>>, <<6, 7, 8>>,
       <<0, 3, 6>>, <<1, 4, 7>>, <<2, 5, 8>>,
       <<0, 4, 8>>, <<2, 4, 6>> >>

Positions == 0..8
Indices == <<0, 1, 2, 3, 4, 5, 6, 7, 8>>

----------------------------------------------------------------------------
(* JavaScript values *)

Undefined == [type |-> "undefined"]
NumberValue(n) == [type |-> "number", num |-> n]
BooleanValue(b) == [type |-> "boolean", bool |-> b]
StringValue(s) == [type |-> "string", chars |-> s]
ErrorValue(m) == [type |-> "error", message |-> m]
NoValue == [type |-> "none"]

isString(param) == param.type = "string"

Digits == <<"0", "1", "2", "3", "4", "5", "6", "7", "8", "9">>

\* Number.prototype.toString for a non-negative integer
RECURSIVE NumberToString(_)
NumberToString(n) ==
    IF n < 10 THEN <<Digits[n + 1]>>
    ELSE NumberToString(n \div 10) \o <<Digits[(n % 10) + 1]>>

\* the string a template literal interpolates for a tally value
TallyToString(v) == IF isString(v) THEN v.chars ELSE NumberToString(v.num)

\* `${ a },${ index }`
TemplateCommaJoin(a, index) ==
    StringValue(TallyToString(a) \o <<",">> \o NumberToString(index))

\* s.split(',')[0]: the characters before the first comma
RECURSIVE SplitFirst(_)
SplitFirst(s) ==
    IF s = <<>> \/ Head(s) = "," THEN <<>>
    ELSE <<Head(s)>> \o SplitFirst(Tail(s))

DigitValue(c) == CHOOSE d \in 0..9 : Digits[d + 1] = c

\* unary + on a string of decimal digits
RECURSIVE ParseNumber(_)
ParseNumber(s) ==
    IF s = <<>> THEN 0
    ELSE 10 * ParseNumber(SubSeq(s, 1, Len(s) - 1)) + DigitValue(s[Len(s)])

\* Map
EmptyMap == <<>>
MapHas(m, k) == k \in DOMAIN m
MapGet(m, k) == IF k \in DOMAIN m THEN m[k] ELSE Undefined
MapSet(m, k, v) == (k :> v) @@ m

----------------------------------------------------------------------------
(* Board *)

\* new Board(): Array.from({ length: 9 }, () => CellValue.Empty)
EmptyBoard == [i \in Positions |-> Empty]

isEmpty(state) == \A i \in Positions : state[i] = Empty

\* variant: a full board is not recognised
isFullNever(state) == FALSE

isFull(state) == \A i \in Positions : state[i] # Empty

\* variant: the occupied cell is overwritten
insertOverwrite(state, symbol, position) ==
    IF position < 0 \/ position > 8
    THEN [ret |-> ErrorValue("La posicion no existe!"), state |-> state]
    ELSE IF symbol \notin {O, X}
    THEN [ret |-> ErrorValue("No es un simbolo permitido!"), state |-> state]
    ELSE [ret |-> BooleanValue(TRUE), state |-> [state EXCEPT ![position] = symbol]]

\* Board.insert: the returned (or thrown) value and the _state afterwards
insert(state, symbol, position) ==
    IF position < 0 \/ position > 8
    THEN [ret |-> ErrorValue("La posicion no existe!"), state |-> state]
    ELSE IF symbol \notin {O, X}
    THEN [ret |-> ErrorValue("No es un simbolo permitido!"), state |-> state]
    ELSE IF state[position] # Empty
    THEN [ret |-> BooleanValue(FALSE), state |-> state]
    ELSE [ret |-> BooleanValue(TRUE), state |-> [state EXCEPT ![position] = symbol]]

getAvailableMoves(state) == SelectSeq(Indices, LAMBDA index : state[index] = Empty)

lineHeld(state, line) ==
    /\ state[line[1]] # Empty
    /\ state[line[2]] # Empty
    /\ state[line[3]] # Empty
    /\ state[line[1]] = state[line[2]]
    /\ state[line[1]] = state[line[3]]

calculateGameState(state, position1, position2, position3) ==
    IF lineHeld(state, <<position1, position2, position3>>)
    THEN [finished |-> TRUE, winner |-> state[position1],
          winnerPositions |-> <<position1, position2, position3>>]
    ELSE [finished |-> FALSE]

getFinishState(state) ==
    IF isEmpty(state) THEN [finished |-> FALSE]
    ELSE IF isFull(state) THEN [winner |-> "DRAW", finished |-> TRUE]
    ELSE LET anyWinner == SelectSeq(WINNER_POSITIONS, LAMBDA line : lineHeld(state, line))
         IN IF anyWinner # <<>>
            THEN calculateGameState(state, anyWinner[1][1], anyWinner[1][2], anyWinner[1][3])
            ELSE [finished |-> FALSE]

\* state.winner === symbol, for a GameState whose winner may be absent
winnerIs(state, symbol) == "winner" \in DOMAIN state /\ state.winner = symbol

----------------------------------------------------------------------------
(* Player *)

\* What a call can change: the Player's tally and the callback's invocations;
\* with them travel the observations the properties are stated on: the final
\* `best` of the root, and whether minimax ever ran on a board with no
\* available move.
NewPlayer ==
    [nodesMap |-> EmptyMap, callbacks |-> <<>>,
     rootBest |-> NoValue, noMoves |-> FALSE]

\* variant: the index is returned without running the callback
returnWithoutCallback(self, moves, best) ==
    LET bestMovement == MapGet(moves, best)
    IN [ret |-> IF isString(bestMovement)
                THEN NumberValue(ParseNumber(SplitFirst(bestMovement.chars)))
                ELSE bestMovement,
        self |-> self]

getBestMoveAndExecuteCallback(self, moves, best) ==
    LET bestMovement == MapGet(moves, best)
        returnValue == IF isString(bestMovement)
                       THEN NumberValue(ParseNumber(SplitFirst(bestMovement.chars)))
                       ELSE bestMovement
    IN [ret |-> returnValue,
        self |-> [self EXCEPT !.callbacks = Append(@, returnValue)]]

\* variant: the tally is never cleared
keepNodesMap(self, depth) == self

\* if (depth === 0) this.nodesMap.clear()
clearNodesMap(self, depth) ==
    IF depth = 0 THEN [self EXCEPT !.nodesMap = EmptyMap] ELSE self

\* the heuristic value of a terminal (or depth-capped) board
heuristicValue(state, depth) ==
    IF winnerIs(state, X) THEN 100 - depth
    ELSE IF winnerIs(state, O) THEN -100 + depth
    ELSE 0

\* variant: both sides place X
cellValueAlwaysX(maximizing) == X

\* the symbol minimax places: O when minimizing, X when maximizing
cellValueFor(maximizing) == IF ~maximizing THEN O ELSE X

\* the value `best` starts from
initialBest(maximizing) == IF ~maximizing THEN 100 ELSE -100

\* variant: a later move goes in front of the moves already tallied
setNodeMovesInFront(nodes, nodeValue, index) ==
    LET moves == IF MapHas(nodes, nodeValue)
                 THEN StringValue(NumberToString(index) \o <<",">>
                                  \o TallyToString(MapGet(nodes, nodeValue)))
                 ELSE NumberValue(index)
    IN MapSet(nodes, nodeValue, moves)

\* the root's bookkeeping of one move: the tally with index added under nodeValue
setNodeMoves(nodes, nodeValue, index) ==
    LET moves == IF MapHas(nodes, nodeValue)
                 THEN TemplateCommaJoin(MapGet(nodes, nodeValue), index)
                 ELSE NumberValue(index)
    IN MapSet(nodes, nodeValue, moves)

RECURSIVE getBestMove(_, _, _, _), minimax(_, _, _, _)

\* Player.getBestMove(board, maximizing, callback, depth): the returned value
\* and the Player afterwards.
getBestMove(self, state0, maximizing, depth) ==
    LET cleared == clearNodesMap(self, depth)
        state == getFinishState(state0)
    IN IF state.finished \/ depth = maxDepth
       THEN [ret |-> NumberValue(heuristicValue(state, depth)), self |-> cleared]
       ELSE minimax(cleared, maximizing, state0, depth)

\* Player.minimax.  forEach(best, this, i) is the forEach over the available
\* moves from the i-th on, with the running `best` and the Player so far;
\* best = op(best, nodeValue) is written as the comparison Math.max / Math.min
\* makes.
minimax(self, maximizing, state0, depth) ==
    LET moves == getAvailableMoves(state0)
        cellValue == cellValueFor(maximizing)
        RECURSIVE forEach(_, _, _)
        forEach(best, this, i) ==
            IF i > Len(moves) THEN [best |-> best, self |-> this]
            ELSE LET index == moves[i]
                     nextBoard == insert(state0, cellValue, index).state
                     node == getBestMove(this, nextBoard, ~maximizing, depth + 1)
                     nodeValue == node.ret
                     this1 ==
                         IF depth = 0
                         THEN [node.self EXCEPT
                                  !.nodesMap = setNodeMoves(@, nodeValue.num, index)]
                         ELSE node.self
                 IN IF (IF maximizing THEN nodeValue.num > best ELSE nodeValue.num < best)
                    THEN forEach(nodeValue.num, this1, i + 1)
                    ELSE forEach(best, this1, i + 1)
        done == forEach(initialBest(maximizing),
                        IF moves = <<>> THEN [self EXCEPT !.noMoves = TRUE] ELSE self,
                        1)
    IN IF depth = 0
       THEN getBestMoveAndExecuteCallback(
                [done.self EXCEPT !.rootBest = NumberValue(done.best)],
                done.self.nodesMap, done.best)
       ELSE [ret |-> NumberValue(done.best), self |-> done.self]

----------------------------------------------------------------------------
(* Operations *)

Boards == [Positions -> CellValue]
EmptyCells(state) == {i \in Positions : state[i] = Empty}

\* board.insert(symbol, position) on the caller's board
Insert(symbol, position) ==
    \E r \in {insert(board, symbol, position)} :
       /\ board' = r.state
       /\ ret' = r.ret
       /\ op' = [name |-> "insert", symbol |-> symbol, position |-> position]
       /\ UNCHANGED <<turn, maxDepth, nodesMap, callbacks, probe>>

\* board.getFinishState()
GetFinishState ==
    /\ ret' = [type |-> "GameState", state |-> getFinishState(board)]
    /\ op' = [name |-> "getFinishState"]
    /\ UNCHANGED <<board, turn, maxDepth, nodesMap, callbacks, probe>>

\* player.getBestMove(b, side, callback): a top-level call (depth 0) on a board
\* b for the side the caller chooses
GetBestMove(b, side) ==
    \E r \in {getBestMove([NewPlayer EXCEPT !.nodesMap = nodesMap], b, side, 0)} :
       /\ board' = b
       /\ turn' = side
       /\ ret' = r.ret
       /\ nodesMap' = r.self.nodesMap
       /\ callbacks' = r.self.callbacks
       /\ probe' = [rootBest |-> r.self.rootBest, noMoves |-> r.self.noMoves,
                    leftover |-> nodesMap # EmptyMap /\ nodesMap # r.self.nodesMap]
       /\ op' = [name |-> "getBestMove"]
       /\ UNCHANGED maxDepth

DepthCaps == {-1} \cup (0..MaxDepthCap)

NoProbe ==
    [rootBest |-> NoValue, noMoves |-> FALSE, leftover |-> FALSE]

\* new Player(maxDepth)
InitPlayer ==
    /\ maxDepth \in DepthCaps
    /\ nodesMap = EmptyMap
    /\ ret = NoValue
    /\ callbacks = <<>>
    /\ op = [name |-> "new"]
    /\ probe = NoProbe

\* --- Board lifecycle: new Board(), then any inserts and finish-state reads
InsertSymbols == CellValue
InsertPositions == -1..9

InitBoard == board = EmptyBoard /\ turn = TRUE /\ InitPlayer /\ maxDepth = -1

NextBoard ==
    \/ \E symbol \in InsertSymbols, position \in InsertPositions : Insert(symbol, position)
    \/ GetFinishState

SpecBoard == InitBoard /\ [][NextBoard]_vars

\* --- One search: new Board(state), new Player(maxDepth), one getBestMove for
\* either side
\* The roots are the boards with at most MaxEmpty Empty cells and the all-Empty
\* board of new Board().
InitSearch ==
    /\ \/ board \in {b \in Boards : Cardinality(EmptyCells(b)) <= MaxEmpty}
       \/ board = EmptyBoard
    /\ turn \in BOOLEAN
    /\ InitPlayer

NextSearch == op.name = "new" /\ GetBestMove(board, turn)

SpecSearch == InitSearch /\ [][NextSearch]_vars

\* --- One Player serving search after search, on the boards of games that
\* continue the sample program's board
\* new Board(['X', 'O', '', '', '', '', 'O', '', 'X'])
SampleBoard ==
    [i \in Positions |-> IF i \in {0, 8} THEN X ELSE IF i \in {1, 6} THEN O ELSE Empty]

Count(state, symbol) == Cardinality({i \in Positions : state[i] = symbol})

ReuseBoards ==
    {b \in Boards :
        /\ \A i \in Positions : SampleBoard[i] # Empty => b[i] = SampleBoard[i]
        /\ Count(b, X) - Count(b, O) \in {0, 1}}

InitReuse == board = SampleBoard /\ turn = TRUE /\ InitPlayer

NextReuse == \E b \in ReuseBoards, side \in BOOLEAN : GetBestMove(b, side)

SpecReuse == InitReuse /\ [][NextReuse]_vars

----------------------------------------------------------------------------
(* What the properties are stated on *)

Called == op.name = "getBestMove"

Occupied(state) == Positions \ EmptyCells(state)

HasLine(state, symbol) ==
    \E k \in 1..Len(WINNER_POSITIONS) :
        \A j \in 1..3 : state[WINNER_POSITIONS[k][j]] = symbol

Full(state) == EmptyCells(state) = {}

\* the game on this board has ended
Over(state) == Full(state) \/ HasLine(state, X) \/ HasLine(state, O)

\* the last operation was a top-level call that went on to evaluate the moves
Searched == Called /\ ~Over(board) /\ maxDepth # 0

Mover == IF turn THEN X ELSE O
Opponent == IF turn THEN O ELSE X

Place(state, symbol, i) == [state EXCEPT ![i] = symbol]

\* the Empty cells where symbol would complete a line
WinningCells(state, symbol) ==
    {i \in EmptyCells(state) : HasLine(Place(state, symbol, i), symbol)}

SetMax(S) == CHOOSE v \in S : \A w \in S : w <= v
SetMin(S) == CHOOSE v \in S : \A w \in S : v <= w

\* plain minimax: an X line is worth 100 - depth, an O line -100 + depth, a full
\* board without a line 0; X maximizes, O minimizes
RECURSIVE PlainMinimax(_, _, _)
PlainMinimax(state, maximizing, depth) ==
    IF HasLine(state, X) THEN 100 - depth
    ELSE IF HasLine(state, O) THEN -100 + depth
    ELSE IF Full(state) THEN 0
    ELSE LET values == {PlainMinimax(Place(state, IF maximizing THEN X ELSE O, i),
                                     ~maximizing, depth + 1) : i \in EmptyCells(state)}
         IN IF maximizing THEN SetMax(values) ELSE SetMin(values)

\* the score the search gives the successor of board b by side's move to cell i
ChildScore(b, side, i) ==
    getBestMove(NewPlayer, Place(b, IF side THEN X ELSE O, i), ~side, 1).ret.num

\* the moves on b whose successor scores best
TiedMoves(b, side, best) == {i \in EmptyCells(b) : ChildScore(b, side, i) = best}

\* the cells a tally value lists (a cell index is one digit)
CellsOf(v) ==
    IF isString(v)
    THEN {DigitValue(v.chars[k]) : k \in {j \in 1..Len(v.chars) : v.chars[j] # ","}}
    ELSE {v.num}

TallyCells(nodes) == UNION {CellsOf(nodes[k]) : k \in DOMAIN nodes}

ReturnsCell == ret.type = "number" /\ ret.num \in Positions

----------------------------------------------------------------------------
(* Properties *)

\* C1: on a board where the game is not over, an unlimited-depth top-level call
\* computes the plain minimax value of the position at the root and returns a
\* move whose successor has that value.
C1_RootIsMinimaxValue ==
    (Called /\ maxDepth = -1 /\ ~Over(board)) =>
        /\ probe.rootBest = NumberValue(PlainMinimax(board, turn, 0))
        /\ ret.type = "number"
        /\ ret.num \in EmptyCells(board)
        /\ PlainMinimax(Place(board, Mover, ret.num), ~turn, 1)
             = PlainMinimax(board, turn, 0)

\* C2: getFinishState reports DRAW only for a full board on which no winning
\* line is held, and for a full board with a held line it reports finished with
\* the symbol of a held line as winner.
C2_DrawOnlyWithoutLine ==
    op.name = "getFinishState" =>
        /\ winnerIs(ret.state, "DRAW") =>
               Full(board) /\ ~HasLine(board, X) /\ ~HasLine(board, O)
        /\ (Full(board) /\ (HasLine(board, X) \/ HasLine(board, O))) =>
               /\ ret.state.finished
               /\ \E symbol \in {X, O} : HasLine(board, symbol) /\ winnerIs(ret.state, symbol)

\* C3, as stated: every top-level call, whatever the board, runs the callback
\* exactly once with a cell index and returns that index.
C3_CallbackOnEveryCall ==
    Called => Len(callbacks) = 1 /\ callbacks[1] = ret /\ ReturnsCell

\* C3, amended: a top-level call that evaluates the moves (game not over, depth
\* cap not 0) runs the callback exactly once, with a cell index, and returns
\* that index; a top-level call on a board where the game is over, or with
\* depth cap 0, returns the heuristic score (100, -100 or 0) and never runs the
\* callback.
C3_CallbackWhenSearched ==
    /\ Searched => Len(callbacks) = 1 /\ callbacks[1] = ret /\ ReturnsCell
    /\ (Called /\ ~Searched) =>
           callbacks = <<>> /\ ret.type = "number" /\ ret.num \in {-100, 0, 100}

C3_Witness == Searched /\ Len(callbacks) = 1 /\ Cardinality(EmptyCells(board)) >= 2

\* C4: when the player to move can complete a line at once, the unlimited-depth
\* top-level call returns a completing cell and the root score is that of a win
\* at depth 1 (99 for X, -99 for O).
C4_ForcedWin ==
    (Called /\ maxDepth = -1 /\ ~Over(board) /\ WinningCells(board, Mover) # {}) =>
        /\ ret.type = "number"
        /\ ret.num \in WinningCells(board, Mover)
        /\ probe.rootBest = NumberValue(IF turn THEN 99 ELSE -99)

\* C5: when the player to move cannot complete a line at once and the opponent
\* has exactly one completing cell, the unlimited-depth top-level call returns
\* that cell.
C5_ForcedBlock ==
    (/\ Called /\ maxDepth = -1 /\ ~Over(board)
     /\ WinningCells(board, Mover) = {}
     /\ Cardinality(WinningCells(board, Opponent)) = 1) =>
        ret.type = "number" /\ ret.num \in WinningCells(board, Opponent)

\* C6: a top-level call that evaluates the moves returns the lowest cell among
\* the root moves whose successor scores the final best, and the same call
\* repeated on the same board for the same side returns the same cell.
LowestTiedMove(b, side, best, returned) ==
    /\ best.type = "number"
    /\ returned.type = "number"
    /\ returned.num \in TiedMoves(b, side, best.num)
    /\ \A i \in TiedMoves(b, side, best.num) : returned.num <= i

C7_TallyIsolation ==
    Called =>
        LET fresh == getBestMove(NewPlayer, board, turn, 0)
        IN /\ ret = fresh.ret
           /\ nodesMap = fresh.self.nodesMap
           /\ TallyCells(nodesMap) = (IF Searched THEN EmptyCells(board) ELSE {})

C7_Witness == Searched /\ probe.leftover

\* C8: on the all-Empty board with unlimited depth the root's final best is 0,
\* whichever side moves first.
C8_EmptyBoardDraws ==
    (Called /\ board = EmptyBoard /\ maxDepth = -1) => probe.rootBest = NumberValue(0)

C8_Witness ==
    Called /\ board = EmptyBoard /\ maxDepth = -1 /\ ~turn /\ ret.type = "number"

\* C9: an insert of X or O at a position in 0..8 on an occupied cell returns
\* false and changes no cell; on an Empty cell it returns true, sets that cell to
\* the symbol, changes no other cell and raises the occupied count by one; no
\* occupied cell ever changes.
C9_InsertFrame ==
    [][(op'.name = "insert" /\ op'.symbol \in {X, O} /\ op'.position \in Positions) =>
          /\ board[op'.position] # Empty =>
                 ret'.type = "boolean" /\ ~ret'.bool /\ \A j \in Positions : board'[j] = board[j]
          /\ board[op'.position] = Empty =>
                 /\ ret'.type = "boolean" /\ ret'.bool
                 /\ board'[op'.position] = op'.symbol
                 /\ \A j \in Positions \ {op'.position} : board'[j] = board[j]
                 /\ Cardinality(Occupied(board')) = Cardinality(Occupied(board)) + 1
          /\ \A j \in Occupied(board) : board'[j] = board[j]]_vars

C9_Witness ==
    /\ op.name = "insert" /\ ret.type = "boolean" /\ ~ret.bool
    /\ Cardinality(Occupied(board)) >= 2

\* C10: no search runs minimax on a board without available moves, and a
\* top-level call that evaluates the moves ends with a tally bucket for the
\* final best that lists at least one cell, and returns an Empty cell of the
\* board it was given.
C10_BestBucketHoldsAMove ==
    /\ Called => ~probe.noMoves
    /\ Searched =>
           /\ probe.rootBest.type = "number"
           /\ MapHas(nodesMap, probe.rootBest.num)
           /\ CellsOf(MapGet(nodesMap, probe.rootBest.num)) # {}
           /\ ret.type = "number"
           /\ ret.num \in EmptyCells(board)

C10_Witness ==
    /\ Searched
    /\ Cardinality(EmptyCells(board)) >= 3
    /\ isString(MapGet(nodesMap, probe.rootBest.num))

====
